---- MODULE Spec2Model ----
(***************************************************************************)
(* Model of the generic helper functions of src/rust/rust_showcase.rs:     *)
(* largest, divide, process_division, and of the spawn-and-join section of *)
(* main.  Every call is a small state machine whose inputs are drawn in    *)
(* Init; slice references are 0-based indices into the caller's slice.     *)
(***************************************************************************)
EXTENDS Integers, Sequences, FiniteSets, TLC

\* ---- bounds of the input space ----
MaxLen == 3
MaxElem == 2
MaxNum == 3
MaxHay == 3
MaxItem == 2

\* ---- f64 values (IEEE 754 binary64) -------------------------------------
\* A double is a record: k = "fin" (sign s, value m * 2^e), "inf" (sign s)
\* or "nan".  The significand m is a natural below 2^53 held as <<hi, lo>>
\* with m = hi * 2^27 + lo.  A finite record is canonical: either
\* 2^52 <= m < 2^53 and EMin <= e <= EMax (normal), or m < 2^52 and e = EMin
\* (subnormal, zero included).
Limb == 134217728
HiNormal == 33554432
HiTop == 67108864
EMin == -1074
EMax == 971
QuotientBits == 55

MZero == <<0, 0>>
MIsZero(x) == x[1] = 0 /\ x[2] = 0
MOdd(x) == x[2] % 2 = 1
MDbl(x, bit) ==
    LET l == 2 * x[2] + bit
    IN  <<2 * x[1] + (l \div Limb), l % Limb>>
MHalf(x) == <<x[1] \div 2, (x[1] % 2) * (Limb \div 2) + (x[2] \div 2)>>
MInc(x) == IF x[2] + 1 = Limb THEN <<x[1] + 1, 0>> ELSE <<x[1], x[2] + 1>>
MGeq(x, y) == x[1] > y[1] \/ (x[1] = y[1] /\ x[2] >= y[2])
MSub(x, y) ==
    IF x[2] >= y[2] THEN <<x[1] - y[1], x[2] - y[2]>>
    ELSE <<x[1] - y[1] - 1, x[2] + Limb - y[2]>>

NaN == [k |-> "nan", s |-> 0, m |-> MZero, e |-> EMin]
Inf(sg) == [k |-> "inf", s |-> sg, m |-> MZero, e |-> EMin]
Fin(sg, mant, ex) == [k |-> "fin", s |-> sg, m |-> mant, e |-> ex]
FZero(sg) == Fin(sg, MZero, EMin)
NegZero == FZero(1)
IsZero(a) == a.k = "fin" /\ MIsZero(a.m)
Xor(s1, s2) == (s1 + s2) % 2

\* mant * 2^ex with the significand shifted up to 53 bits (mant # 0); the
\* exponent is not limited here
RECURSIVE NormUpFrom(_)
NormUpFrom(t) ==
    IF t.m[1] >= HiNormal THEN t
    ELSE NormUpFrom([m |-> MDbl(t.m, 0), e |-> t.e - 1])
NormUp(mant, ex) == NormUpFrom([m |-> mant, e |-> ex])

\* shift mant * 2^ex (plus a guard bit and a sticky bit below it) right until
\* it fits 53 bits and ex >= EMin
RECURSIVE ShiftDownFrom(_)
ShiftDownFrom(t) ==
    IF t.m[1] < HiTop /\ t.e >= EMin THEN t
    ELSE IF MIsZero(t.m) /\ ~t.guard
    THEN [m |-> MZero, e |-> EMin, guard |-> FALSE, sticky |-> t.sticky]
    ELSE ShiftDownFrom([m |-> MHalf(t.m), e |-> t.e + 1,
                        guard |-> MOdd(t.m), sticky |-> t.sticky \/ t.guard])
ShiftDown(mant, ex, guard, sticky) ==
    ShiftDownFrom([m |-> mant, e |-> ex, guard |-> guard, sticky |-> sticky])

\* round-to-nearest, ties-to-even, of mant * 2^ex (plus sticky) to a double
RoundNearestEven(sg, mant, ex, sticky) ==
    LET t == ShiftDown(mant, ex, FALSE, sticky)
        up == t.guard /\ (t.sticky \/ MOdd(t.m))
        m1 == IF up THEN MInc(t.m) ELSE t.m
        carry == m1[1] >= HiTop
        m2 == IF carry THEN MHalf(m1) ELSE m1
        e2 == IF carry THEN t.e + 1 ELSE t.e
    IN  IF e2 > EMax THEN Inf(sg) ELSE Fin(sg, m2, e2)

\* an integer literal of small magnitude as a double (exact)
FromInt(z) ==
    LET sg == IF z < 0 THEN 1 ELSE 0
        mag == IF z < 0 THEN -z ELSE z
    IN  IF mag = 0 THEN FZero(sg)
        ELSE LET n == NormUp(<<mag \div Limb, mag % Limb>>, 0)
             IN  Fin(sg, n.m, n.e)

\* f64::MAX and the smallest positive subnormal
MaxFinite == Fin(0, <<HiTop - 1, Limb - 1>>, EMax)
MinSubnormal == Fin(0, <<0, 1>>, EMin)

\* the doubles 1.0/3.0, 1.0/49.0 and 0.1
OneThird == Fin(0, <<44739242, 89478485>>, -54)
OneFortyNinth == Fin(0, <<43826196, 120522041>>, -58)
OneTenth == Fin(0, <<53687091, 26843546>>, -56)

\* a == b on f64: NaN equals nothing, -0.0 equals 0.0
FEq(a, b) ==
    IF a.k = "nan" \/ b.k = "nan" THEN FALSE
    ELSE IF IsZero(a) /\ IsZero(b) THEN TRUE
    ELSE a = b

\* |a| > |b| for canonical finite a, b
MagGt(a, b) == a.e > b.e \/ (a.e = b.e /\ MGeq(a.m, b.m) /\ a.m # b.m)

\* a > b on f64 (PartialOrd::gt): FALSE whenever one side is NaN
FGt(a, b) ==
    IF a.k = "nan" \/ b.k = "nan" THEN FALSE
    ELSE IF IsZero(a) /\ IsZero(b) THEN FALSE
    ELSE IF a.k = "inf" THEN a.s = 0 /\ b # a
    ELSE IF b.k = "inf" THEN b.s = 1
    ELSE IF a.s # b.s THEN a.s = 0
    ELSE IF a.s = 0 THEN MagGt(a, b)
    ELSE MagGt(b, a)

\* a >= b on f64 (PartialOrd::ge)
FGe(a, b) == FGt(a, b) \/ FEq(a, b)

\* restoring division: steps more quotient bits of rem / den (rem < den)
RECURSIVE LongDivFrom(_, _)
LongDivFrom(t, den) ==
    IF t.steps = 0 THEN t
    ELSE LET r2 == MDbl(t.r, 0)
         IN  IF MGeq(r2, den)
             THEN LongDivFrom([q |-> MDbl(t.q, 1), r |-> MSub(r2, den), steps |-> t.steps - 1], den)
             ELSE LongDivFrom([q |-> MDbl(t.q, 0), r |-> r2, steps |-> t.steps - 1], den)
LongDiv(rem, den, quo, steps) == LongDivFrom([q |-> quo, r |-> rem, steps |-> steps], den)

\* a / b on f64: the exact quotient rounded once to nearest-even, with
\* overflow to infinity and gradual underflow
FDiv(a, b) ==
    IF a.k = "nan" \/ b.k = "nan" THEN NaN
    ELSE IF a.k = "inf" THEN (IF b.k = "inf" THEN NaN ELSE Inf(Xor(a.s, b.s)))
    ELSE IF b.k = "inf" THEN FZero(Xor(a.s, b.s))
    ELSE IF IsZero(b) THEN (IF IsZero(a) THEN NaN ELSE Inf(Xor(a.s, b.s)))
    ELSE IF IsZero(a) THEN FZero(Xor(a.s, b.s))
    ELSE LET x == NormUp(a.m, a.e)
             y == NormUp(b.m, b.e)
             first == MGeq(x.m, y.m)
             d == LongDiv(IF first THEN MSub(x.m, y.m) ELSE x.m, y.m,
                          IF first THEN <<0, 1>> ELSE MZero, QuotientBits)
         IN  RoundNearestEven(Xor(a.s, b.s), d.q, x.e - y.e - QuotientBits, ~MIsZero(d.r))

\* a * 2.0 on f64: exact scaling by two, with overflow to infinity
FMulTwo(a) ==
    IF a.k # "fin" \/ IsZero(a) THEN a
    ELSE IF a.m[1] < HiNormal THEN Fin(a.s, MDbl(a.m, 0), a.e)
    ELSE IF a.e + 1 > EMax THEN Inf(a.s)
    ELSE Fin(a.s, a.m, a.e + 1)

\* ---- state -------------------------------------------------------------
VARIABLES
    op,            \* the function under call
    pc,            \* control position of the calling (main) thread
    list,          \* largest: the caller's slice `list`
    list0,         \* the caller's slice as it was when the call was made
    largest,       \* largest: the local reference `largest` (index), NoRef before it is bound
    it,            \* largest: position of the iterator `list.iter()`
    ret,           \* largest: the returned reference (index), NoRef while none
    reads,         \* largest: number of element accesses made so far
    cmps,          \* largest: number of `>` comparisons made so far
    panic,         \* panic message, "" while the call has not panicked
    numerator,     \* divide / process_division: first argument
    denominator,   \* divide / process_division: second argument
    divres,        \* process_division: value of `divide(num, den)`
    result,        \* process_division: the local `result`
    retval,        \* divide / process_division: the returned Result
    divcalls,      \* number of invocations of divide made so far
    haystack,      \* find_item: the caller's slice `haystack`
    needle,        \* find_item: the value looked for
    index,         \* find_item: position of `haystack.iter().enumerate()`
    found,         \* find_item: the returned Option<usize>
    out,           \* lines written to standard output
    tpc,           \* control position of the spawned thread
    i,             \* loop variable of the main thread's `for i in 1..=2`
    ti             \* loop variable of the spawned thread's `for i in 1..=3`

vars == <<op, pc, list, list0, largest, it, ret, reads, cmps, panic,
          numerator, denominator, divres, result, retval, divcalls,
          haystack, needle, index, found, out, tpc, i, ti>>

largest_vars == <<list, list0, largest, it, ret, reads, cmps>>
div_vars == <<numerator, denominator, divres, result, retval, divcalls>>
thread_vars == <<tpc, i, ti>>
find_vars == <<haystack, needle, index, found>>

NoRef == -1

\* ---- Result<f64, String> ----------------------------------------------
Ok(v) == [tag |-> "Ok", val |-> v, msg |-> ""]
Err(m) == [tag |-> "Err", val |-> NaN, msg |-> m]
Pending == [tag |-> "Pending", val |-> NaN, msg |-> ""]

\* ---- input space -------------------------------------------------------
\* element type T of `largest`, instantiated with f64 (PartialOrd, not Ord)
Elems == {FromInt(z) : z \in 0..MaxElem} \cup {NaN}

RECURSIVE SeqsUpTo(_, _)
SeqsUpTo(S, len) ==
    IF len = 0 THEN {<<>>}
    ELSE LET shorter == SeqsUpTo(S, len - 1)
         IN  shorter \cup {Append(q, e) : q \in {r \in shorter : Len(r) = len - 1}, e \in S}

number_list == <<FromInt(34), FromInt(50), FromInt(25), FromInt(100), FromInt(65)>>
\* 'y', 'm', 'c', 'a' by code point
char_list == <<FromInt(121), FromInt(109), FromInt(99), FromInt(97)>>

Lists == SeqsUpTo(Elems, MaxLen) \cup {number_list, char_list}

Doubles == {FromInt(z) : z \in -MaxNum..MaxNum}
              \cup {NegZero, NaN, Inf(0), Inf(1), MaxFinite, MinSubnormal,
                    OneThird, OneFortyNinth, OneTenth}
\* the argument pairs main passes to divide and process_division
MainPairs == {<<FromInt(10), FromInt(2)>>, <<FromInt(10), FromInt(0)>>,
              <<FromInt(20), FromInt(5)>>, <<FromInt(20), FromInt(0)>>}
Pairs == (Doubles \X Doubles) \cup MainPairs

\* Option<usize>
Some(x) == [tag |-> "Some", idx |-> x]
None == [tag |-> "None", idx |-> -1]
NoOption == [tag |-> "Pending", idx |-> -1]

\* the haystack and the needles main passes to find_item
numbers == <<1, 2, 3, 4, 5>>
Haystacks == SeqsUpTo(0..MaxItem, MaxHay) \cup {numbers}
Needles == (0..MaxItem) \cup {3, 6}

Ops == {"largest", "divide", "process_division", "concurrency", "find_item"}

Init ==
    /\ op \in Ops
    /\ pc = "call"
    /\ list \in (IF op = "largest" THEN Lists ELSE {<<>>})
    /\ list0 = list
    /\ largest = NoRef /\ it = 0 /\ ret = NoRef /\ reads = 0 /\ cmps = 0
    /\ panic = ""
    /\ \E p \in (IF op \in {"divide", "process_division"} THEN Pairs
                 ELSE {<<FromInt(0), FromInt(0)>>}) :
          numerator = p[1] /\ denominator = p[2]
    /\ divres = Pending /\ result = NaN /\ retval = Pending
    /\ divcalls = 0
    /\ haystack \in (IF op = "find_item" THEN Haystacks ELSE {<<>>})
    /\ needle \in (IF op = "find_item" THEN Needles ELSE {0})
    /\ index = 0 /\ found = NoOption
    /\ out = <<>>
    /\ tpc = "unspawned" /\ i = 0 /\ ti = 0

\* ---- largest<T: PartialOrd>(list: &[T]) -> &T ----------------------------
\* `item > largest` of the loop body
GtFlipped(a, b) == FGt(b, a)
GeInsteadOfGt(a, b) == FGe(a, b)
Gt(a, b) == FGt(a, b)

\* list.is_empty()
is_empty_never(l) == FALSE
is_empty(l) == Len(l) = 0

\* one pass of the body of `for item in list.iter()`: item is list[pos];
\* the slice is a shared borrow, the body only rebinds `largest`
for_body_swap(l, cur, pos) ==
    IF Gt(l[pos + 1], l[cur + 1])
    THEN [list |-> [l EXCEPT ![cur + 1] = l[pos + 1], ![pos + 1] = l[cur + 1]],
          largest |-> cur]
    ELSE [list |-> l, largest |-> cur]
for_body(l, cur, pos) ==
    [list |-> l, largest |-> IF Gt(l[pos + 1], l[cur + 1]) THEN pos ELSE cur]

\* if list.is_empty() { panic!(..) }
largest_check ==
    /\ op = "largest" /\ pc = "call"
    /\ IF is_empty(list)
       THEN /\ panic' = "Cannot find largest in empty list"
            /\ pc' = "panicked"
       ELSE /\ pc' = "bind"
            /\ UNCHANGED panic
    /\ UNCHANGED <<op, find_vars, largest_vars, div_vars, out, thread_vars>>

\* let mut largest = &list[0];   (indexing is bounds-checked)
largest_bind ==
    /\ op = "largest" /\ pc = "bind"
    /\ reads' = reads + 1
    /\ IF Len(list) = 0
       THEN /\ panic' = "index out of bounds: the len is 0 but the index is 0"
            /\ pc' = "panicked"
            /\ UNCHANGED largest
       ELSE /\ largest' = 0
            /\ pc' = "loop"
            /\ UNCHANGED panic
    /\ UNCHANGED <<op, find_vars, list, list0, it, ret, cmps, div_vars, out, thread_vars>>

\* for item in list.iter() { if item > largest { largest = item; } }
largest_iter ==
    /\ op = "largest" /\ pc = "loop"
    /\ it < Len(list)
    /\ LET r == for_body(list, largest, it)
       IN  /\ list' = r.list
           /\ largest' = r.largest
    /\ it' = it + 1
    /\ reads' = reads + 1
    /\ cmps' = cmps + 1
    /\ UNCHANGED <<op, find_vars, pc, list0, ret, panic, div_vars, out, thread_vars>>

\* the iterator is exhausted; the tail expression `largest` is returned
largest_return ==
    /\ op = "largest" /\ pc = "loop"
    /\ it >= Len(list)
    /\ ret' = largest
    /\ pc' = "returned"
    /\ UNCHANGED <<op, find_vars, list, list0, largest, it, reads, cmps, panic, div_vars, out, thread_vars>>

\* ---- find_item(haystack: &[i32], needle: i32) -> Option<usize> ----------
\* `item == needle` on i32
item_at_least_needle(item, n) == item >= n
item_is_needle(item, n) == item = n

\* one pass of `for (index, &item) in haystack.iter().enumerate()`:
\* return Some(index) on a match, otherwise go on with the next element
find_next ==
    /\ op = "find_item" /\ pc = "call"
    /\ index < Len(haystack)
    /\ IF item_is_needle(haystack[index + 1], needle)
       THEN /\ found' = Some(index)
            /\ pc' = "returned"
            /\ UNCHANGED index
       ELSE /\ index' = index + 1
            /\ UNCHANGED <<pc, found>>
    /\ UNCHANGED <<op, haystack, needle, largest_vars, panic, div_vars, out, thread_vars>>

\* the iterator is exhausted: None
find_none ==
    /\ op = "find_item" /\ pc = "call"
    /\ index >= Len(haystack)
    /\ found' = None
    /\ pc' = "returned"
    /\ UNCHANGED <<op, haystack, needle, index, largest_vars, panic, div_vars, out, thread_vars>>

\* ---- divide(numerator: f64, denominator: f64) -> Result<f64, String> ----
Zero == FromInt(0)

divide_unguarded(n, d) == Ok(FDiv(n, d))
divide_swapped(n, d) == IF FEq(d, Zero) THEN Err("Cannot divide by zero!") ELSE Ok(FDiv(d, n))
divide(n, d) ==
    IF FEq(d, Zero)
    THEN Err("Cannot divide by zero!")
    ELSE Ok(FDiv(n, d))

divide_call ==
    /\ op = "divide" /\ pc = "call"
    /\ retval' = divide(numerator, denominator)
    /\ divcalls' = divcalls + 1
    /\ pc' = "returned"
    /\ UNCHANGED <<op, find_vars, largest_vars, panic, numerator, denominator, divres, result, out, thread_vars>>

\* ---- process_division(num: f64, den: f64) -> Result<f64, String> --------
\* From<String> for String, applied by `?` to the error
from(e) == e

\* the `?` operator on a Result<f64, String>: an Err leaves the function
\* at once with Err(From::from(e)); an Ok yields its payload
question_mark_wrapping(r) ==
    IF r.tag = "Err"
    THEN [early |-> TRUE, value |-> Err("Processing error: " \o r.msg), inner |-> NaN]
    ELSE [early |-> FALSE, value |-> Pending, inner |-> r.val]
question_mark_or_default(r) ==
    [early |-> FALSE, value |-> Pending, inner |-> IF r.tag = "Err" THEN Zero ELSE r.val]
question_mark(r) ==
    IF r.tag = "Err"
    THEN [early |-> TRUE, value |-> Err(from(r.msg)), inner |-> NaN]
    ELSE [early |-> FALSE, value |-> Pending, inner |-> r.val]

\* where control goes after `?`: out of the function on an Err, on to the
\* next statement on an Ok; nothing leads back to the call of divide
after_try_retry(q) == IF q.early THEN "call" ELSE "println"
after_try(q) == IF q.early THEN "returned" ELSE "println"

\* Ok(result * 2.0)
tail_value_undoubled(r) == Ok(r)
tail_value(r) == Ok(FMulTwo(r))

Notice == "Division successful, proceeding..."

\* divide(num, den)
pd_divide ==
    /\ op = "process_division" /\ pc = "call"
    /\ divres' = divide(numerator, denominator)
    /\ divcalls' = divcalls + 1
    /\ pc' = "try"
    /\ UNCHANGED <<op, find_vars, largest_vars, panic, numerator, denominator, result, retval, out, thread_vars>>

\* let result = divide(num, den)?;
pd_try ==
    /\ op = "process_division" /\ pc = "try"
    /\ LET q == question_mark(divres)
       IN  /\ pc' = after_try(q)
           /\ IF q.early
              THEN /\ retval' = q.value
                   /\ UNCHANGED result
              ELSE /\ result' = q.inner
                   /\ UNCHANGED retval
    /\ UNCHANGED <<op, find_vars, largest_vars, panic, numerator, denominator, divres, divcalls, out, thread_vars>>

\* println!("Division successful, proceeding...");
pd_println ==
    /\ op = "process_division" /\ pc = "println"
    /\ out' = Append(out, Notice)
    /\ pc' = "tail"
    /\ UNCHANGED <<op, find_vars, largest_vars, panic, div_vars, thread_vars>>

\* Ok(result * 2.0)
pd_return ==
    /\ op = "process_division" /\ pc = "tail"
    /\ retval' = tail_value(result)
    /\ pc' = "returned"
    /\ UNCHANGED <<op, find_vars, largest_vars, panic, numerator, denominator, divres, result, divcalls, out, thread_vars>>

\* ---- main, section 17: thread::spawn and JoinHandle::join ----------------
MainIters == 2
SpawnedIters == 3

ToStr(z) == CASE z = 0 -> "0" [] z = 1 -> "1" [] z = 2 -> "2" [] z = 3 -> "3"
              [] z = 4 -> "4" [] z = 5 -> "5" [] z = 6 -> "6" [] z = 7 -> "7"
              [] z = 8 -> "8" [] z = 9 -> "9"
SpawnedLine(z) == "Hi number " \o ToStr(z) \o " from the spawned thread!"
MainLine(z) == "Hi number " \o ToStr(z) \o " from the main thread!"
FinishedLine == "Spawned thread finished."
EndLine == "\n--- End of Showcase ---"

\* handle.join() returns once the spawned thread has run to its end
join_detached(t) == TRUE
join_ready(t) == t = "finished"

\* let handle = thread::spawn(|| { .. });
main_spawn ==
    /\ op = "concurrency" /\ pc = "call"
    /\ tpc' = "print" /\ ti' = 1
    /\ i' = 1 /\ pc' = "m_print"
    /\ UNCHANGED <<op, find_vars, largest_vars, panic, div_vars, out>>

\* println!("Hi number {} from the main thread!", i);
main_print ==
    /\ op = "concurrency" /\ pc = "m_print"
    /\ out' = Append(out, MainLine(i))
    /\ pc' = "m_sleep"
    /\ UNCHANGED <<op, find_vars, largest_vars, panic, div_vars, thread_vars>>

\* thread::sleep(..) returns; next pass of `for i in 1..=2` or loop exit
main_sleep ==
    /\ op = "concurrency" /\ pc = "m_sleep"
    /\ IF i < MainIters
       THEN i' = i + 1 /\ pc' = "m_print"
       ELSE i' = i /\ pc' = "join"
    /\ UNCHANGED <<op, find_vars, largest_vars, panic, div_vars, out, tpc, ti>>

\* handle.join().unwrap();
main_join ==
    /\ op = "concurrency" /\ pc = "join"
    /\ join_ready(tpc)
    /\ pc' = "joined"
    /\ UNCHANGED <<op, find_vars, largest_vars, panic, div_vars, out, thread_vars>>

\* println!("Spawned thread finished.");
main_finished ==
    /\ op = "concurrency" /\ pc = "joined"
    /\ out' = Append(out, FinishedLine)
    /\ pc' = "end"
    /\ UNCHANGED <<op, find_vars, largest_vars, panic, div_vars, thread_vars>>

\* println!("\n--- End of Showcase ---"); main returns and the process exits
main_end ==
    /\ op = "concurrency" /\ pc = "end"
    /\ out' = Append(out, EndLine)
    /\ pc' = "exited"
    /\ UNCHANGED <<op, find_vars, largest_vars, panic, div_vars, thread_vars>>

\* spawned closure: println!("Hi number {} from the spawned thread!", i);
spawned_print ==
    /\ op = "concurrency" /\ pc # "exited"
    /\ tpc = "print"
    /\ out' = Append(out, SpawnedLine(ti))
    /\ tpc' = "sleep"
    /\ UNCHANGED <<op, find_vars, pc, largest_vars, panic, div_vars, i, ti>>

\* spawned closure: thread::sleep(..) returns; next pass of `for i in 1..=3`
\* or the closure returns
spawned_sleep ==
    /\ op = "concurrency" /\ pc # "exited"
    /\ tpc = "sleep"
    /\ IF ti < SpawnedIters
       THEN ti' = ti + 1 /\ tpc' = "print"
       ELSE ti' = ti /\ tpc' = "finished"
    /\ UNCHANGED <<op, find_vars, pc, largest_vars, panic, div_vars, out, i>>

MainThread ==
    \/ main_spawn \/ main_print \/ main_sleep
    \/ main_join \/ main_finished \/ main_end
SpawnedThread == spawned_print \/ spawned_sleep

\* ---- specification -----------------------------------------------------
Next ==
    \/ largest_check \/ largest_bind \/ largest_iter \/ largest_return
    \/ find_next \/ find_none
    \/ divide_call
    \/ pd_divide \/ pd_try \/ pd_println \/ pd_return
    \/ main_spawn \/ main_print \/ main_sleep
    \/ main_join \/ main_finished \/ main_end
    \/ spawned_print \/ spawned_sleep

Spec == Init /\ [][Next]_vars

\* both OS threads keep being scheduled while they have a step to take
FairSpec == Spec /\ WF_vars(MainThread) /\ WF_vars(SpawnedThread)

\* ---- properties --------------------------------------------------------
Returned(o) == op = o /\ pc = "returned"
Positions(l) == 0..(Len(l) - 1)
At(l, p) == l[p + 1]
\* every two elements of l are ordered one way or the other
PairwiseComparable(l) ==
    \A a \in Positions(l), b \in Positions(l) : FGe(At(l, a), At(l, b)) \/ FGe(At(l, b), At(l, a))
\* position p holds an element that is >= every element of l
IsMaxAt(l, p) == \A k \in Positions(l) : FGe(At(l, p), At(l, k))
Count(line, o) == Cardinality({k \in DOMAIN o : o[k] = line})
IndexOf(line, o) == CHOOSE k \in DOMAIN o : o[k] = line

\* C1 as stated: for every non-empty sequence of elements of a PartialOrd
\* type, largest returns an element that is >= every element of the sequence.
C1_AnyOrder ==
    Returned("largest") =>
        /\ ret \in Positions(list)
        /\ IsMaxAt(list, ret)

\* C1 amended: for every non-empty sequence whose elements are pairwise
\* comparable, largest returns an element of the sequence that is >= every
\* element; largest([34,50,25,100,65]) = 100 and largest(['y','m','c','a']) = 'y'.
C1_LargestIsMaximum ==
    (Returned("largest") /\ PairwiseComparable(list0)) =>
        /\ ret \in Positions(list0)
        /\ IsMaxAt(list0, ret)
        /\ (list0 = number_list => At(list0, ret) = FromInt(100))
        /\ (list0 = char_list => At(list0, ret) = FromInt(121))

C1_Witness ==
    /\ Returned("largest")
    /\ list0 = number_list
    /\ At(list0, ret) = FromInt(100)

\* C2: when the maximum value occurs more than once, largest returns the
\* occurrence at the smallest index; a later equal element never replaces
\* an earlier one.
C2_FirstOccurrenceOfMaximum ==
    Returned("largest") =>
        \A p \in Positions(list0) :
            IsMaxAt(list0, p) => (ret <= p /\ IsMaxAt(list0, ret))

C2_Witness ==
    /\ Returned("largest")
    /\ \E p \in Positions(list0), q \in Positions(list0) :
          /\ p < q /\ 0 < p
          /\ IsMaxAt(list0, p) /\ IsMaxAt(list0, q)
          /\ ret = p

\* C3: largest on an empty sequence takes the panic path of the emptiness
\* check and never returns a value; no element is accessed and no comparison
\* is made before that check.
C3_EmptyPanics ==
    /\ (op = "largest" /\ pc = "call") => (reads = 0 /\ cmps = 0)
    /\ (op = "largest" /\ list0 = <<>>) =>
          /\ pc \in {"call", "panicked"}
          /\ ret = NoRef
          /\ reads = 0 /\ cmps = 0
          /\ (pc = "panicked" => panic = "Cannot find largest in empty list")

C3_Witness ==
    /\ op = "largest" /\ list0 = <<>>
    /\ pc = "panicked"
    /\ panic = "Cannot find largest in empty list"

\* C4: for every numerator n, divide(n, d) with d equal to zero returns the
\* failure carrying exactly "Cannot divide by zero!", never a success.
C4_DivideByZeroFails ==
    (Returned("divide") /\ FEq(denominator, Zero)) =>
        /\ retval.tag = "Err"
        /\ retval.msg = "Cannot divide by zero!"
        /\ retval = Err("Cannot divide by zero!")

C4_Witness ==
    /\ Returned("divide")
    /\ numerator = FromInt(10) /\ denominator = FromInt(0)
    /\ retval.tag = "Err"

\* small integers whose doubles are among the arguments
IntArgs == (-MaxNum..MaxNum) \cup {2, 5, 10, 20}
Abs(z) == IF z < 0 THEN -z ELSE z
\* a / b for integers with b # 0 dividing a
ExactQuotient(a, b) ==
    IF (a < 0) = (b < 0) THEN Abs(a) \div Abs(b) ELSE -(Abs(a) \div Abs(b))
\* the doubles 49.00000000000001, 3.333333333333333 and 0.6666666666666666
C5_OneOverOneFortyNinth == Fin(0, <<51380224, 1>>, -47)
C5_OneThirdOverOneTenth == Fin(0, <<55924053, 44739242>>, -51)
C6_TwoThirds == Fin(0, <<44739242, 89478485>>, -53)

\* C5: for all n and d with d != 0, divide(n, d) returns a success whose
\* value is the f64 quotient n / d, never a failure; divide(10.0, 2.0) = Ok(5.0).
C5_DivideSucceeds ==
    (Returned("divide") /\ ~FEq(denominator, Zero)) =>
        /\ retval.tag = "Ok"
        /\ retval.val = FDiv(numerator, denominator)
        /\ \A a \in IntArgs, b \in IntArgs \ {0} :
              (numerator = FromInt(a) /\ denominator = FromInt(b) /\ Abs(a) % Abs(b) = 0) =>
                  FEq(retval.val, FromInt(ExactQuotient(a, b)))
        /\ (numerator = FromInt(10) /\ denominator = FromInt(2)) => retval = Ok(FromInt(5))
        /\ (numerator = FromInt(1) /\ denominator = FromInt(3)) => retval = Ok(OneThird)
        /\ (numerator = FromInt(1) /\ denominator = OneFortyNinth) =>
              retval = Ok(C5_OneOverOneFortyNinth)
        /\ (numerator = OneThird /\ denominator = OneTenth) =>
              retval = Ok(C5_OneThirdOverOneTenth)
        /\ (numerator = MaxFinite /\ denominator = MinSubnormal) => retval = Ok(Inf(0))
        /\ (numerator = MinSubnormal /\ denominator = MaxFinite) => retval = Ok(FZero(0))

C5_Witness ==
    /\ Returned("divide")
    /\ numerator = FromInt(10) /\ denominator = FromInt(2)
    /\ retval = Ok(FromInt(5))

\* C6: for all n and d with d != 0, process_division(n, d) returns a success
\* whose value is (n / d) * 2 in f64, twice the value divide(n, d) succeeds
\* with; process_division(20.0, 5.0) = Ok(8.0).
C6_ProcessDivisionDoubles ==
    (Returned("process_division") /\ ~FEq(denominator, Zero)) =>
        /\ retval.tag = "Ok"
        /\ retval.val = FMulTwo(FDiv(numerator, denominator))
        /\ divres.tag = "Ok" /\ retval.val = FMulTwo(divres.val)
        /\ \A a \in IntArgs, b \in IntArgs \ {0} :
              (numerator = FromInt(a) /\ denominator = FromInt(b) /\ Abs(a) % Abs(b) = 0) =>
                  FEq(retval.val, FromInt(2 * ExactQuotient(a, b)))
        /\ (numerator = FromInt(20) /\ denominator = FromInt(5)) => retval = Ok(FromInt(8))
        /\ (numerator = FromInt(1) /\ denominator = FromInt(3)) => retval = Ok(C6_TwoThirds)
        /\ (numerator = MaxFinite /\ denominator = FromInt(1)) => retval = Ok(Inf(0))
        /\ (numerator = MinSubnormal /\ denominator = FromInt(1)) =>
              retval = Ok(Fin(0, <<0, 2>>, EMin))

C6_Witness ==
    /\ Returned("process_division")
    /\ numerator = FromInt(20) /\ denominator = FromInt(5)
    /\ retval = Ok(FromInt(8))

\* C7: for every n, process_division(n, 0) returns exactly the failure that
\* divide(n, 0) returns: same kind, same message, no wrapping, no
\* post-transform.
C7_FailurePropagatedVerbatim ==
    (Returned("process_division") /\ FEq(denominator, Zero)) =>
        /\ divres.tag = "Err"
        /\ retval = divres
        /\ retval = Err("Cannot divide by zero!")

C7_Witness ==
    /\ Returned("process_division")
    /\ numerator = FromInt(20) /\ denominator = FromInt(0)
    /\ retval = Err("Cannot divide by zero!")

\* C8: the notice "Division successful, proceeding..." is emitted on the
\* success path only: exactly once, after the zero-denominator guard has
\* passed and before the call returns, and never in a call that returns a
\* failure.
C8_NoticeOnSuccessOnly ==
    op = "process_division" =>
        /\ Count(Notice, out) = Len(out)
        /\ Count(Notice, out) =
              (IF pc \in {"tail", "returned"} /\ divres.tag = "Ok" THEN 1 ELSE 0)
        /\ (pc = "returned" /\ retval.tag = "Ok") => out = <<Notice>>
        /\ (pc = "returned" /\ retval.tag = "Err") => out = <<>>
        /\ (out # <<>> /\ pc # "returned") => retval = Pending

C8_Witness ==
    /\ op = "process_division" /\ pc = "tail"
    /\ out = <<Notice>>
    /\ divres.tag = "Ok" /\ retval = Pending

\* C9: in every interleaving the join completes before the process exits:
\* the spawned thread has printed its three lines and finished before main
\* prints "Spawned thread finished." and the end-of-showcase line, and the
\* join always eventually returns.
C9_JoinedBeforeFinishedLine ==
    (op = "concurrency" /\ (pc \in {"joined", "end", "exited"} \/ Count(FinishedLine, out) > 0)) =>
        /\ tpc = "finished"
        /\ \A z \in 1..SpawnedIters : Count(SpawnedLine(z), out) = 1
        /\ \A k \in DOMAIN out :
              out[k] \in {FinishedLine, EndLine} =>
                  \A z \in 1..SpawnedIters : IndexOf(SpawnedLine(z), out) < k
        /\ pc = "exited" =>
              /\ Count(FinishedLine, out) = 1 /\ Count(EndLine, out) = 1
              /\ IndexOf(FinishedLine, out) < IndexOf(EndLine, out)

C9_JoinCompletes ==
    /\ []C9_JoinedBeforeFinishedLine
    /\ (op = "concurrency" /\ pc = "join") ~> (pc = "joined")
    /\ (op = "concurrency") ~> (pc = "exited")

C9_Witness ==
    /\ op = "concurrency" /\ pc = "exited"
    /\ tpc = "finished"
    /\ out[Len(out)] = EndLine
    /\ out[1] = SpawnedLine(1)

\* C10: largest never mutates the caller's sequence: it has the same elements
\* in the same order as before the call, and the returned reference
\* designates a position inside that sequence.
C10_SliceUnchanged ==
    op = "largest" =>
        /\ list = list0
        /\ pc = "returned" => (ret # NoRef /\ ret \in Positions(list) /\ ret = largest)

C10_Witness ==
    /\ Returned("largest")
    /\ Len(list0) >= 2 /\ ret > 0
    /\ list = list0

\* C11: every call of process_division goes from pending to exactly one of
\* succeeded or failed and stops there: divide is invoked exactly once per
\* call, the outcome is that of the first result, there is no retry or loop,
\* and a result is never both a success and a failure.
C11_Outcome ==
    op = "process_division" =>
        /\ retval.tag \in {"Pending", "Ok", "Err"}
        /\ (retval.tag = "Pending") <=> (pc # "returned")
        /\ retval.tag = "Ok" => (retval.msg = "" /\ divres.tag = "Ok")
        /\ retval.tag = "Err" => (retval.val = NaN /\ retval.msg # "" /\ divres.tag = "Err")
        /\ divcalls = (IF pc = "call" THEN 0 ELSE 1)

C11_Terminal ==
    (op = "process_division" /\ pc = "returned") =>
        (pc' = pc /\ retval' = retval /\ divcalls' = divcalls /\ out' = out)

C11_Forward ==
    op = "process_division" =>
        /\ pc' # "call" \/ pc = "call"
        /\ divcalls' >= divcalls
        /\ (retval # Pending => retval' = retval)

C11_PendingToOneOutcome ==
    /\ []C11_Outcome
    /\ [][C11_Terminal /\ C11_Forward]_vars

C11_Witness ==
    /\ Returned("process_division")
    /\ retval.tag = "Err"
    /\ divcalls = 1
    /\ numerator = FromInt(20) /\ denominator = FromInt(0)

\* C12: find_item(haystack, needle) returns Some(i) with i the smallest index
\* such that haystack[i] == needle when the needle occurs in the haystack,
\* and returns None exactly when no element of the haystack equals the
\* needle (the empty haystack included).
C12_FindItemFirstIndex ==
    Returned("find_item") =>
        LET hits == {p \in Positions(haystack) : At(haystack, p) = needle}
        IN  /\ found.tag \in {"Some", "None"}
            /\ (found.tag = "None") <=> (hits = {})
            /\ found.tag = "Some" =>
                  /\ found.idx \in hits
                  /\ \A p \in hits : found.idx <= p
            /\ haystack = <<>> => found = None
            /\ (haystack = numbers /\ needle = 3) => found = Some(2)
            /\ (haystack = numbers /\ needle = 6) => found = None

C12_Witness ==
    /\ Returned("find_item")
    /\ found.tag = "Some" /\ found.idx > 0
    /\ \E p \in Positions(haystack) : p > found.idx /\ At(haystack, p) = needle

====
